---- MODULE Spec2Model ----
(***************************************************************************)
(* Model of 8-week8/0-classifier-introduction.ipynb: one Python kernel     *)
(* (a namespace of notebook-level names) and the notebook's six code       *)
(* cells (notebook cells 1, 3, 5, 7, 9, 11), plus its two locally written  *)
(* functions, classify_price and pprint_preds.                             *)
(*                                                                         *)
(* Spec   : the kernel; each action runs one whole code cell, statement    *)
(*          by statement, until its end or its first unhandled exception.  *)
(* SpecFn : the two functions applied to inputs drawn from bounded sets,   *)
(*          each call made twice, in two notebook states.                  *)
(*                                                                         *)
(* Library calls (numpy, scikit-learn, imbalanced-learn, textwrap) are     *)
(* modelled by what the notebook observes of them: the type, element type  *)
(* and sample axis of what they return, and the exceptions they raise for  *)
(* unbound names, non-string join items and inconsistent sample counts.    *)
(* Every import is taken to succeed.                                       *)
(***************************************************************************)
EXTENDS Integers, Sequences, FiniteSets, TLC

VARIABLES ns, status, out, calls, metrics, runs, nbpos, last,
          fname, arg, gl, res, fpc

vars == <<ns, status, out, calls, metrics, runs, nbpos, last,
          fname, arg, gl, res, fpc>>
kvars == <<ns, status, out, calls, metrics, runs, nbpos, last>>
fvars == <<fname, arg, gl, res, fpc>>

---------------------------------------------------------------------------
(* Bounds of the model *)

\* prices are drawn from windows of this half-width (in units of 1/Den)
\* around 0 and around the two thresholds
Window == 3
\* float prices are the rationals num/Den
Den == 2
\* longest argument list handed to pprint_preds in SpecFn
MaxLen == 2
\* number of cell executions in one kernel session
MaxRuns == 7

---------------------------------------------------------------------------
(* Python values *)

Unbound == [t |-> "unbound"]
None == [t |-> "None"]
PyStr(s) == [t |-> "str", s |-> s]
PyInt(v) == [t |-> "int", v |-> v]
\* the float num/Den
PyFloat(num) == [t |-> "float", num |-> num]
NaN == [t |-> "nan"]
Inf(neg) == [t |-> "inf", neg |-> neg]
\* an imported module, class or function
Lib(name) == [t |-> "lib", name |-> name]
\* a function defined by a def statement of the notebook
Def(name) == [t |-> "function", name |-> name]
PyList(items) == [t |-> "list", items |-> items]
\* a numpy array given by its elements
Array(dtype, items) == [t |-> "ndarray", dtype |-> dtype, items |-> items]
\* a numpy array whose elements the library computes: element type, the
\* dataset and part its n samples are, and what computed it
SymArray(dtype, ds, part, n, by) ==
    [t |-> "ndarray", dtype |-> dtype, ds |-> ds, part |-> part, n |-> n, by |-> by]

\* a namespace maps the names bound in it to their values
Lookup(g, n) == IF n \in DOMAIN g THEN g[n] ELSE Unbound

\* g with the names of the function b bound as in b
Bind(g, b) == [m \in DOMAIN g \union DOMAIN b |-> IF m \in DOMAIN b THEN b[m] ELSE g[m]]

\* the namespace of a fresh kernel: no notebook-level name is bound
FreshNs == [n \in {} |-> Unbound]

IsNumeric(x) == x.t \in {"int", "float", "nan", "inf"}
IsIterable(x) == x.t \in {"list", "ndarray"}

\* the elements iteration over a list or array yields
Items(x) ==
    IF "items" \in DOMAIN x THEN x.items
    ELSE [i \in 1..x.n |-> [t |-> x.dtype, of |-> x.by, i |-> i]]

\* x < c for a number x and an integer literal c (Python's float/int <):
\* every comparison with nan is False
LessThan(x, c) ==
    CASE x.t = "int" -> x.v < c
      [] x.t = "float" -> x.num < c * Den
      [] x.t = "inf" -> x.neg
      [] OTHER -> FALSE

\* x <= c, likewise
LessEq(x, c) ==
    CASE x.t = "int" -> x.v <= c
      [] x.t = "float" -> x.num <= c * Den
      [] x.t = "inf" -> x.neg
      [] OTHER -> FALSE

---------------------------------------------------------------------------
(* classify_price *)

Threshold1 == 80
Threshold2 == 140

\* the result of a call: returned value, printed lines, exception raised,
\* and the notebook-level namespace after the call
Result(ret, printed, err, g) == [ret |-> ret, out |-> printed, err |-> err, g |-> g]

\* faulty variant: the first comparison reversed
classify_price_flipped(price) ==
    IF ~LessThan(price, Threshold1) THEN PyStr("low")
    ELSE IF LessThan(price, Threshold2) THEN PyStr("medium")
    ELSE PyStr("high")

\* faulty variant: price <= 80 for price < 80
classify_price_le80(price) ==
    IF LessEq(price, Threshold1) THEN PyStr("low")
    ELSE IF LessThan(price, Threshold2) THEN PyStr("medium")
    ELSE PyStr("high")

\* faulty variant: price <= 140 for price < 140
classify_price_le140(price) ==
    IF LessThan(price, Threshold1) THEN PyStr("low")
    ELSE IF LessEq(price, Threshold2) THEN PyStr("medium")
    ELSE PyStr("high")

\* faulty variant: no else branch, the function falls off its end
classify_price_noelse(price) ==
    IF LessThan(price, Threshold1) THEN PyStr("low")
    ELSE IF LessThan(price, Threshold2) THEN PyStr("medium")
    ELSE None

\* faulty variant: the first two labels exchanged
classify_price_swapped(price) ==
    IF LessThan(price, Threshold1) THEN PyStr("medium")
    ELSE IF LessThan(price, Threshold2) THEN PyStr("low")
    ELSE PyStr("high")

\* def classify_price(price), for a numeric price
classify_price(price) ==
    IF LessThan(price, Threshold1) THEN PyStr("low")
    ELSE IF LessThan(price, Threshold2) THEN PyStr("medium")
    ELSE PyStr("high")

\* a call classify_price(price) made with notebook-level namespace g:
\* a price that is no number makes the first comparison raise TypeError
CallClassify(price, g) ==
    IF IsNumeric(price) THEN Result(classify_price(price), <<>>, "none", g)
    ELSE Result(None, <<>>, "TypeError", g)

---------------------------------------------------------------------------
(* pprint_preds *)

\* textwrap.fill's default line width
Width == 70

RECURSIVE Join(_, _)
\* sep.join(items), the items being str
Join(sep, items) ==
    IF items = <<>> THEN ""
    ELSE IF Len(items) = 1 THEN items[1].s
    ELSE items[1].s \o sep \o Join(sep, Tail(items))

RECURSIVE Fill(_)
\* textwrap.fill(text) for a text free of whitespace and hyphens: one word,
\* broken every Width characters
Fill(text) ==
    IF Len(text) <= Width THEN text
    ELSE SubSeq(text, 1, Width) \o "\n" \o Fill(SubSeq(text, Width + 1, Len(text)))

Header == << [s |-> "Iris Predictions"], [s |-> "----------------"] >>

\* the third print of pprint_preds, of the value v it joins
JoinAndShow(v, g) ==
    IF Lookup(g, "textwrap") = Unbound \/ v = Unbound THEN Result(None, Header, "NameError", g)
    ELSE IF ~IsIterable(v) THEN Result(None, Header, "TypeError", g)
    ELSE IF \E i \in 1..Len(Items(v)) : Items(v)[i].t # "str"
        THEN Result(None, Header, "TypeError", g)
    ELSE Result(None, Append(Header, [s |-> Fill(Join(",", Items(v)))]), "none", g)

\* def pprint_preds(p), called with notebook-level namespace g: the body
\* joins the notebook-level name predictions, not its parameter
pprint_preds(p, g) == JoinAndShow(Lookup(g, "predictions"), g)

---------------------------------------------------------------------------
(* The kernel: names, statements, library calls *)

\* the run of a cell: namespace, printed lines, calls of the notebook's own
\* functions, calls of metrics, and the exception that stopped it with the
\* source line that raised it
Enter(ns0) ==
    [ns |-> ns0, out |-> <<>>, calls |-> <<>>, metrics |-> <<>>, err |-> "none", line |-> 0]

Raise(k, e, line) == [k EXCEPT !.err = e, !.line = line]

Import(k, names) == [k EXCEPT !.ns = Bind(@, [m \in names |-> Lib(m)])]

Assign(k, name, v) == [k EXCEPT !.ns = Bind(@, name :> v)]

Emit(k, text) == [k EXCEPT !.out = Append(@, text)]

\* number of samples of an array
NSamples(x) == IF "n" \in DOMAIN x THEN x.n ELSE Len(x.items)

\* target = cls().fit(X, y): the library raises ValueError for inconsistent
\* numbers of samples
Fit(k, line, target, cls, Xn, yn) ==
    IF NSamples(Lookup(k.ns, Xn)) # NSamples(Lookup(k.ns, yn)) THEN Raise(k, "ValueError", line)
    ELSE Assign(k, target, [t |-> "estimator", cls |-> cls, labels |-> Lookup(k.ns, yn).dtype])

\* est.predict(Xv) of a classifier: one label, of the training labels' type,
\* per sample of Xv
Predict(est, Xv, by) == SymArray(est.labels, Xv.ds, Xv.part, NSamples(Xv), by)

\* est.predict(Xv) of a regressor: one float per sample of Xv
PredictReg(Xv, by) == SymArray("float64", Xv.ds, Xv.part, NSamples(Xv), by)

\* a metric fn(y_true, y_pred) called at `line`: the library raises
\* ValueError for inconsistent numbers of samples
Metric(k, line, fn, yt, yp) ==
    LET k1 == [k EXCEPT !.metrics =
                   Append(@, [fn |-> fn, y_true |-> yt, y_pred |-> yp, line |-> line])]
    IN IF NSamples(yt) # NSamples(yp) THEN Raise(k1, "ValueError", line) ELSE k1

\* what a call leaves in the cell's log
Logged(fn, a, r) == [fn |-> fn, arg |-> a, ret |-> r.ret, out |-> r.out, err |-> r.err]

\* the statement pprint_preds(a) at `line`
CallPprint(k, line, a) ==
    LET r == pprint_preds(a, k.ns)
    IN [k EXCEPT !.ns = r.g,
                 !.out = @ \o r.out,
                 !.calls = Append(@, Logged("pprint_preds", a, r)),
                 !.err = r.err,
                 !.line = IF r.err = "none" THEN @ ELSE line]

RECURSIVE Comprehension(_, _, _, _)
\* [classify_price(p) for p in items] at `line`, acc the list built so far
Comprehension(k, line, items, acc) ==
    IF items = <<>> THEN Assign(k, "classified_predictions", PyList(acc))
    ELSE LET r == CallClassify(Head(items), k.ns)
             k1 == [k EXCEPT !.ns = r.g,
                             !.calls = Append(@, Logged("classify_price", Head(items), r))]
         IN IF r.err # "none" THEN Raise(k1, r.err, line)
            ELSE Comprehension(k1, line, Tail(items), Append(acc, r.ret))

---------------------------------------------------------------------------
(* The datasets *)

\* rows of X in cells 1 and 3
ToyX == SymArray("int64", "toy", "all", 10, "np.array")
\* y of cell 1
RegY == Array("int64", [i \in 1..10 |-> PyInt(<<30, 45, 60, 75, 90, 105, 120, 135, 150, 165>>[i])])
\* y of cell 3
ClfY == Array("str", [i \in 1..10 |-> PyStr(<<"low", "low", "low", "medium", "medium",
                                               "medium", "medium", "high", "high", "high">>[i])])
\* samples of load_iris(), load_wine() and make_classification(n_samples=1000)
NIris == 150
NWine == 178
NSynth == 1000

\* what regressor.predict([[3.5], [7.5]]) can return: each query lies midway
\* between two training rows, and the tree answers with the target of one
RegPredictions ==
    { Array("float64", <<PyFloat(a * Den), PyFloat(b * Den)>>) :
        a \in {RegY.items[3].v, RegY.items[4].v}, b \in {RegY.items[7].v, RegY.items[8].v} }

\* train_test_split(..., test_size=0.2): the test part has ceil(0.2 * n) samples
NTest(n) == (n + 4) \div 5
NTrain(n) == n - NTest(n)

\* X_train, X_test, y_train, y_test = train_test_split(Xn, yn, test_size=0.2)
Split(k, Xn, yn) ==
    LET xv == Lookup(k.ns, Xn)
        yv == Lookup(k.ns, yn)
        part(v, p, n) == SymArray(v.dtype, v.ds, p, n, "train_test_split")
    IN [k EXCEPT !.ns = Bind(@,
            ("X_train" :> part(xv, "train", NTrain(NSamples(xv))))
            @@ ("X_test" :> part(xv, "test", NTest(NSamples(xv))))
            @@ ("y_train" :> part(yv, "train", NTrain(NSamples(yv))))
            @@ ("y_test" :> part(yv, "test", NTest(NSamples(yv)))))]

---------------------------------------------------------------------------
(* Statements *)

\* the statements of the cells, each with its source line and the
\* notebook-level names it reads
Imp(line, names) == [op |-> "import", line |-> line, uses |-> {}, names |-> names]
DefS(line, name) == [op |-> "def", line |-> line, uses |-> {}, name |-> name]
\* name = <a value computed from the names in uses>
Let(line, uses, name, v) == [op |-> "assign", line |-> line, uses |-> uses, name |-> name, v |-> v]
\* n1, n2 = <two such values>
Let2(line, uses, n1, v1, n2, v2) ==
    [op |-> "assign2", line |-> line, uses |-> uses, n1 |-> n1, v1 |-> v1, n2 |-> n2, v2 |-> v2]
\* target = cls().fit(Xn, yn); uses names the classes the statement builds
FitS(line, uses, target, cls, Xn, yn) ==
    [op |-> "fit", line |-> line, uses |-> uses \union {Xn, yn}, target |-> target,
     cls |-> cls, Xn |-> Xn, yn |-> yn]
\* target = est.predict(Xn), of a classifier and of a regressor
PredS(line, target, est, Xn) ==
    [op |-> "predict", line |-> line, uses |-> {est, Xn}, target |-> target, est |-> est, Xn |-> Xn]
PredRegS(line, target, est, Xn) ==
    [op |-> "predict_reg", line |-> line, uses |-> {est, Xn}, target |-> target,
     est |-> est, Xn |-> Xn]
\* print(text) and print(label, name)
Say(line, text) == [op |-> "say", line |-> line, uses |-> {}, text |-> text]
Show(line, label, name) ==
    [op |-> "show", line |-> line, uses |-> {name}, label |-> label, name |-> name]
\* classified_predictions = [classify_price(p) for p in predictions]
ComprS(line) == [op |-> "comprehension", line |-> line, uses |-> {"predictions", "classify_price"}]
\* pprint_preds(est.predict(Xn))
PprintS(line, est, Xn) ==
    [op |-> "pprint", line |-> line, uses |-> {"pprint_preds", est, Xn}, est |-> est, Xn |-> Xn]
\* X_train, X_test, y_train, y_test = train_test_split(Xn, yn, test_size=0.2)
SplitS(line, Xn, yn) ==
    [op |-> "split", line |-> line, uses |-> {"train_test_split", Xn, yn}, Xn |-> Xn, yn |-> yn]
\* print(label, fn(ytn, ypn))
MetricS(line, label, fn, ytn, ypn) ==
    [op |-> "metric", line |-> line, uses |-> {fn, ytn, ypn}, label |-> label, fn |-> fn,
     ytn |-> ytn, ypn |-> ypn]
\* print(label, classification_report(yn, est.predict(Xn)))
ReportS(line, label, yn, est, Xn) ==
    [op |-> "report", line |-> line, uses |-> {"classification_report", yn, est, Xn},
     label |-> label, yn |-> yn, est |-> est, Xn |-> Xn]
\* X_resampled, y_resampled = SMOTE().fit_resample(X, y)
SmoteS(line) == [op |-> "smote", line |-> line, uses |-> {"SMOTE", "X", "y"}]

\* print(label, fn(yt, yp)) at `line`
ShowMetric(k, line, label, fn, yt, yp) ==
    LET k1 == Metric(k, line, fn, yt, yp)
    IN IF k1.err # "none" THEN k1 ELSE Emit(k1, [s |-> label, v |-> [t |-> "score", of |-> fn]])

\* SMOTE().fit_resample(X, y) of the two-class data made with
\* weights=[0.9, 0.1]: the minority class is filled up to the majority's size
NResampled == 2 * ((NSynth * 9) \div 10)

Resample(k, line) ==
    IF NSamples(Lookup(k.ns, "X")) # NSamples(Lookup(k.ns, "y")) THEN Raise(k, "ValueError", line)
    ELSE Assign(Assign(k, "X_resampled",
                       SymArray("float64", "synth", "smote", NResampled, "SMOTE")),
                "y_resampled", SymArray("int64", "synth", "smote", NResampled, "SMOTE"))

\* the effect of statement st, the names it reads being bound
Exec(k, st) ==
    CASE st.op = "import" -> Import(k, st.names)
      [] st.op = "def" -> Assign(k, st.name, Def(st.name))
      [] st.op = "assign" -> Assign(k, st.name, st.v)
      [] st.op = "assign2" -> Assign(Assign(k, st.n1, st.v1), st.n2, st.v2)
      [] st.op = "fit" -> Fit(k, st.line, st.target, st.cls, st.Xn, st.yn)
      [] st.op = "predict" ->
            Assign(k, st.target, Predict(Lookup(k.ns, st.est), Lookup(k.ns, st.Xn), st.est \o ".predict"))
      [] st.op = "predict_reg" ->
            Assign(k, st.target, PredictReg(Lookup(k.ns, st.Xn), st.est \o ".predict"))
      [] st.op = "say" -> Emit(k, [s |-> st.text])
      [] st.op = "show" -> Emit(k, [s |-> st.label, v |-> Lookup(k.ns, st.name)])
      [] st.op = "comprehension" ->
            Comprehension(k, st.line, Items(Lookup(k.ns, "predictions")), <<>>)
      [] st.op = "pprint" ->
            CallPprint(k, st.line, Predict(Lookup(k.ns, st.est), Lookup(k.ns, st.Xn), st.est \o ".predict"))
      [] st.op = "split" -> Split(k, st.Xn, st.yn)
      [] st.op = "metric" -> ShowMetric(k, st.line, st.label, st.fn, Lookup(k.ns, st.ytn), Lookup(k.ns, st.ypn))
      [] st.op = "report" ->
            ShowMetric(k, st.line, st.label, "classification_report", Lookup(k.ns, st.yn),
                       Predict(Lookup(k.ns, st.est), Lookup(k.ns, st.Xn), st.est \o ".predict"))
      [] st.op = "smote" -> Resample(k, st.line)

\* one statement: NameError when a name it reads is unbound
Step(k, st) ==
    IF \E n \in st.uses : n \notin DOMAIN k.ns THEN Raise(k, "NameError", st.line)
    ELSE Exec(k, st)

RECURSIVE Run(_, _)
\* the statements of a cell in order, up to the first that raises
Run(k, prog) ==
    IF prog = <<>> \/ k.err # "none" THEN k ELSE Run(Step(k, Head(prog)), Tail(prog))

---------------------------------------------------------------------------
(* The code cells *)

\* faulty variant of cell 1: the numpy import left to an earlier cell
Cell1_no_numpy(preds) ==
    << Imp(28, {"DecisionTreeRegressor"}),
       Let(31, {"np"}, "X", ToyX),
       Let(32, {"np"}, "y", RegY),
       FitS(35, {"DecisionTreeRegressor"}, "regressor", "DecisionTreeRegressor", "X", "y"),
       Let(38, {"regressor"}, "predictions", preds),
       Show(39, "Regression predictions:", "predictions"),
       DefS(42, "classify_price"),
       ComprS(50),
       Show(51, "Classified predictions:", "classified_predictions") >>

\* notebook cell 1; preds is what regressor.predict returns
Cell1(preds) ==
    << Imp(27, {"np"}),
       Imp(28, {"DecisionTreeRegressor"}),
       Let(31, {"np"}, "X", ToyX),
       Let(32, {"np"}, "y", RegY),
       FitS(35, {"DecisionTreeRegressor"}, "regressor", "DecisionTreeRegressor", "X", "y"),
       Let(38, {"regressor"}, "predictions", preds),
       Show(39, "Regression predictions:", "predictions"),
       DefS(42, "classify_price"),
       ComprS(50),
       Show(51, "Classified predictions:", "classified_predictions") >>

\* notebook cell 3
Cell3 ==
    << Imp(67, {"DecisionTreeClassifier"}),
       Let(70, {"np"}, "X", ToyX),
       Let(71, {"np"}, "y", ClfY),
       FitS(74, {"DecisionTreeClassifier"}, "classifier", "DecisionTreeClassifier", "X", "y"),
       Let(77, {"classifier"}, "probabilities",
           SymArray("float64", "query", "all", 2, "classifier.predict_proba")),
       Show(78, "Classification probabilities:", "probabilities") >>

\* notebook cell 5
Cell5 ==
    << Imp(102, {"LogisticRegression"}),
       Imp(103, {"OneVsRestClassifier"}),
       Imp(104, {"load_iris"}),
       Imp(105, {"textwrap"}),
       Let(108, {"load_iris"}, "iris", [t |-> "Bunch", ds |-> "iris"]),
       Let2(109, {"iris"}, "X", SymArray("float64", "iris", "all", NIris, "iris.data"),
                           "y", SymArray("int64", "iris", "all", NIris, "iris.target")),
       FitS(112, {"OneVsRestClassifier", "LogisticRegression"}, "multiclass_classifier",
            "OneVsRestClassifier", "X", "y"),
       DefS(115, "pprint_preds"),
       PprintS(120, "multiclass_classifier", "X") >>

\* notebook cell 7
Cell7 ==
    << Imp(142, {"KNeighborsClassifier"}),
       Imp(143, {"DecisionTreeClassifier"}),
       FitS(146, {"KNeighborsClassifier"}, "knn", "KNeighborsClassifier", "X", "y"),
       Say(147, "KNN"),
       PprintS(148, "knn", "X"),
       FitS(151, {"DecisionTreeClassifier"}, "dt", "DecisionTreeClassifier", "X", "y"),
       Say(152, "Decision Tree"),
       PprintS(153, "dt", "X") >>

\* faulty variant of cell 9: the MSE printed after the names are rebound
Cell9_late_mse ==
    << Imp(175, {"train_test_split"}),
       Imp(176, {"mean_squared_error", "accuracy_score"}),
       Imp(177, {"load_wine"}),
       Let2(180, {"load_wine"}, "X_reg", SymArray("float64", "wine", "all", NWine, "load_wine"),
                                "y_reg", SymArray("int64", "wine", "all", NWine, "load_wine")),
       SplitS(181, "X_reg", "y_reg"),
       FitS(182, {"DecisionTreeRegressor"}, "reg_model", "DecisionTreeRegressor",
            "X_train", "y_train"),
       PredRegS(183, "reg_predictions", "reg_model", "X_test"),
       Let2(187, {"load_iris"}, "X_clf", SymArray("float64", "iris", "all", NIris, "load_iris"),
                                "y_clf", SymArray("int64", "iris", "all", NIris, "load_iris")),
       SplitS(188, "X_clf", "y_clf"),
       MetricS(184, "MSE:", "mean_squared_error", "y_test", "reg_predictions"),
       FitS(189, {"DecisionTreeClassifier"}, "clf_model", "DecisionTreeClassifier",
            "X_train", "y_train"),
       PredS(190, "clf_predictions", "clf_model", "X_test"),
       MetricS(191, "Accuracy:", "accuracy_score", "y_test", "clf_predictions") >>

\* notebook cell 9
Cell9 ==
    << Imp(175, {"train_test_split"}),
       Imp(176, {"mean_squared_error", "accuracy_score"}),
       Imp(177, {"load_wine"}),
       Let2(180, {"load_wine"}, "X_reg", SymArray("float64", "wine", "all", NWine, "load_wine"),
                                "y_reg", SymArray("int64", "wine", "all", NWine, "load_wine")),
       SplitS(181, "X_reg", "y_reg"),
       FitS(182, {"DecisionTreeRegressor"}, "reg_model", "DecisionTreeRegressor",
            "X_train", "y_train"),
       PredRegS(183, "reg_predictions", "reg_model", "X_test"),
       MetricS(184, "MSE:", "mean_squared_error", "y_test", "reg_predictions"),
       Let2(187, {"load_iris"}, "X_clf", SymArray("float64", "iris", "all", NIris, "load_iris"),
                                "y_clf", SymArray("int64", "iris", "all", NIris, "load_iris")),
       SplitS(188, "X_clf", "y_clf"),
       FitS(189, {"DecisionTreeClassifier"}, "clf_model", "DecisionTreeClassifier",
            "X_train", "y_train"),
       PredS(190, "clf_predictions", "clf_model", "X_test"),
       MetricS(191, "Accuracy:", "accuracy_score", "y_test", "clf_predictions") >>

\* notebook cell 11
Cell11 ==
    << Imp(220, {"make_classification"}),
       Imp(221, {"LogisticRegression"}),
       Imp(222, {"classification_report"}),
       Imp(223, {"SMOTE"}),
       Let2(226, {"make_classification"},
            "X", SymArray("float64", "synth", "all", NSynth, "make_classification"),
            "y", SymArray("int64", "synth", "all", NSynth, "make_classification")),
       FitS(229, {"LogisticRegression"}, "clf", "LogisticRegression", "X", "y"),
       ReportS(230, "Without handling imbalance:", "y", "clf", "X"),
       SmoteS(233),
       FitS(234, {"LogisticRegression"}, "clf_balanced", "LogisticRegression",
            "X_resampled", "y_resampled"),
       ReportS(235, "After handling imbalance:", "y", "clf_balanced", "X") >>

---------------------------------------------------------------------------
(* The kernel session: Spec *)

\* the code cells, by their index in the notebook, in notebook order
Order == <<1, 3, 5, 7, 9, 11>>
Cells == {Order[i] : i \in 1..Len(Order)}

Idle == [err |-> "idle", line |-> 0]

\* no call of SpecFn is in progress
NoCall == [fname |-> "none", arg |-> <<>>, gl |-> <<>>, res |-> <<>>, fpc |-> "off"]

\* a fresh kernel, no cell executed
Init ==
    /\ ns = FreshNs
    /\ status = [c \in Cells |-> Idle]
    /\ out = <<>>
    /\ calls = <<>>
    /\ metrics = <<>>
    /\ runs = 0
    /\ nbpos = 0
    /\ last = 0
    /\ fname = NoCall.fname /\ arg = NoCall.arg /\ gl = NoCall.gl
    /\ res = NoCall.res /\ fpc = NoCall.fpc

\* cell c has been executed and its run was k: the kernel keeps the
\* namespace the run left, up to the statement that raised. nbpos counts
\* the cells executed so far while the session is the notebook's order
\* from a fresh kernel, each cell once, and is -1 once it is not
Ran(c, k) ==
    /\ runs < MaxRuns
    /\ ns' = k.ns
    /\ status' = [status EXCEPT ![c] = [err |-> k.err, line |-> k.line]]
    /\ out' = k.out
    /\ calls' = k.calls
    /\ metrics' = k.metrics
    /\ runs' = runs + 1
    /\ nbpos' = IF nbpos >= 0 /\ nbpos < Len(Order) /\ Order[nbpos + 1] = c
                THEN nbpos + 1 ELSE -1
    /\ last' = c
    /\ UNCHANGED fvars

RunCell1 == \E preds \in RegPredictions : Ran(1, Run(Enter(ns), Cell1(preds)))
RunCell3 == Ran(3, Run(Enter(ns), Cell3))
RunCell5 == Ran(5, Run(Enter(ns), Cell5))
RunCell7 == Ran(7, Run(Enter(ns), Cell7))
RunCell9 == Ran(9, Run(Enter(ns), Cell9))
RunCell11 == Ran(11, Run(Enter(ns), Cell11))

Next == RunCell1 \/ RunCell3 \/ RunCell5 \/ RunCell7 \/ RunCell9 \/ RunCell11

Spec == Init /\ [][Next]_vars

---------------------------------------------------------------------------
(* The two functions on their own: SpecFn *)

\* the prices: ints and floats around 0 and around the two thresholds, the
\* float specials, and a value that is no number
Around(c) == (c - Window)..(c + Window)
Prices ==
    {PyInt(v) : v \in Around(0) \union Around(Threshold1) \union Around(Threshold2)}
    \union {PyFloat(n) : n \in Around(0) \union Around(Threshold1 * Den)
                               \union Around(Threshold2 * Den)}
    \union {NaN, Inf(TRUE), Inf(FALSE), PyStr("80")}

\* a word longer than one output line
LongWord == "versicolorversicolorversicolorversicolorversicolorversicolorversicolorv"

Elems == {PyStr("a"), PyStr(LongWord), PyFloat(60 * Den)}
RECURSIVE Tuples(_)
\* the sequences of Elems of length n
Tuples(n) ==
    IF n = 0 THEN {<<>>} ELSE {Append(t, e) : t \in Tuples(n - 1), e \in Elems}
\* the arguments handed to pprint_preds: lists of up to MaxLen elements
PredArgs == {PyList(t) : t \in UNION {Tuples(n) : n \in 0..MaxLen}}

\* a notebook state in which both functions are defined, and the name
\* predictions is bound to v (or unbound)
NsWith(v) ==
    LET defs == ("np" :> Lib("np")) @@ ("textwrap" :> Lib("textwrap"))
                @@ ("classify_price" :> Def("classify_price"))
                @@ ("pprint_preds" :> Def("pprint_preds"))
    IN IF v = Unbound THEN defs ELSE Bind(defs, "predictions" :> v)

\* the notebook states classify_price is called in
FewStates == {NsWith(v) : v \in {Unbound, PyList(<<PyStr("a")>>)} \union RegPredictions}
\* the notebook states pprint_preds is called in
ManyStates == {NsWith(v) : v \in {Unbound} \union RegPredictions \union PredArgs}

\* a function, two arguments and two notebook states: the function is
\* about to be called once in each state
InitFn ==
    /\ ns = FreshNs
    /\ status = [c \in Cells |-> Idle]
    /\ out = <<>> /\ calls = <<>> /\ metrics = <<>>
    /\ runs = 0 /\ nbpos = 0 /\ last = 0
    /\ fpc = "ready"
    /\ res = <<>>
    /\ \/ /\ fname = "classify_price"
          /\ arg \in Prices \X Prices
          /\ gl \in FewStates \X FewStates
       \/ /\ fname = "pprint_preds"
          /\ \E p \in PredArgs : arg = <<p, p>>
          /\ gl \in ManyStates \X ManyStates

CallClassifyPrice ==
    /\ fpc = "ready" /\ fname = "classify_price"
    /\ res' = <<CallClassify(arg[1], gl[1]), CallClassify(arg[2], gl[2])>>
    /\ fpc' = "done"
    /\ UNCHANGED <<fname, arg, gl>>
    /\ UNCHANGED kvars

CallPprintPreds ==
    /\ fpc = "ready" /\ fname = "pprint_preds"
    /\ res' = <<pprint_preds(arg[1], gl[1]), pprint_preds(arg[2], gl[2])>>
    /\ fpc' = "done"
    /\ UNCHANGED <<fname, arg, gl>>
    /\ UNCHANGED kvars

NextFn == CallClassifyPrice \/ CallPprintPreds

SpecFn == InitFn /\ [][NextFn]_vars

---------------------------------------------------------------------------
(* Properties of classify_price, under SpecFn *)

Done(f) == fpc = "done" /\ fname = f

Labels == {PyStr("low"), PyStr("medium"), PyStr("high")}
Rank(label) == CASE label = PyStr("low") -> 1
                 [] label = PyStr("medium") -> 2
                 [] label = PyStr("high") -> 3

\* the number a finite price denotes, in units of 1/Den
IsFinite(x) == x.t \in {"int", "float"}
Scaled(x) == IF x.t = "int" THEN x.v * Den ELSE x.num

\* price < c, c <= price, and a <= b as numbers (nothing is ordered with nan)
Below(x, c) == (IsFinite(x) /\ Scaled(x) < c * Den) \/ x = Inf(TRUE)
AtLeast(x, c) == (IsFinite(x) /\ Scaled(x) >= c * Den) \/ x = Inf(FALSE)
NumLe(a, b) ==
    \/ IsFinite(a) /\ IsFinite(b) /\ Scaled(a) <= Scaled(b)
    \/ a = Inf(TRUE) /\ b.t \in {"int", "float", "inf"}
    \/ b = Inf(FALSE) /\ a.t \in {"int", "float", "inf"}

Returned(i, label) == res[i].err = "none" /\ res[i].ret = label

\* C1: for every numeric price below 80, zero and negative prices
\* included, classify_price(price) returns "low".
C1_Below80IsLow ==
    Done("classify_price") =>
        \A i \in 1..2 : Below(arg[i], Threshold1) => Returned(i, PyStr("low"))

\* C1 witness: classify_price has returned "low" for 0 and for a negative
\* price.
C1_Witness ==
    /\ Done("classify_price")
    /\ arg[1] = PyInt(0) /\ Returned(1, PyStr("low"))
    /\ arg[2] = PyFloat(-1) /\ Returned(2, PyStr("low"))

\* C2: for every numeric price with 80 <= price < 140, classify_price
\* returns "medium"; the boundary price 80 gives "medium".
C2_From80Below140IsMedium ==
    Done("classify_price") =>
        \A i \in 1..2 :
            AtLeast(arg[i], Threshold1) /\ Below(arg[i], Threshold2)
                => Returned(i, PyStr("medium"))

\* C2 witness: the boundary 80, as an int and as a float, has been
\* classified "medium".
C2_Witness ==
    /\ Done("classify_price")
    /\ arg[1] = PyInt(80) /\ Returned(1, PyStr("medium"))
    /\ arg[2] = PyFloat(80 * Den) /\ Returned(2, PyStr("medium"))

\* C3: for every numeric price of at least 140, classify_price returns
\* "high"; the boundary price 140 gives "high".
C3_From140IsHigh ==
    Done("classify_price") =>
        \A i \in 1..2 : AtLeast(arg[i], Threshold2) => Returned(i, PyStr("high"))

\* C3 witness: the boundary 140 and a price above it have been classified
\* "high".
C3_Witness ==
    /\ Done("classify_price")
    /\ arg[1] = PyInt(140) /\ Returned(1, PyStr("high"))
    /\ arg[2] = PyFloat(140 * Den + 1) /\ Returned(2, PyStr("high"))

\* C4: classify_price is total over numeric scalars with range exactly the
\* three labels: every call with a numeric price returns, without raising,
\* one of "low", "medium", "high", and each label is returned for a price.
C4_TotalOntoLabels ==
    /\ Done("classify_price") =>
           \A i \in 1..2 : IsNumeric(arg[i]) => res[i].err = "none" /\ res[i].ret \in Labels
    /\ \A label \in Labels : \E price \in Prices :
           IsNumeric(price) /\ CallClassify(price, FreshNs).ret = label

\* C4 witness: a nan price and an infinite one have been classified, each
\* with one of the three labels.
C4_Witness ==
    /\ Done("classify_price")
    /\ arg[1] = NaN /\ res[1].ret \in Labels
    /\ arg[2] = Inf(TRUE) /\ res[2].ret \in Labels

\* C10: classify_price is monotone for low < medium < high: for numeric
\* a <= b the label of a is at most the label of b, and the labels differ
\* only when 80 or 140 lies in (a, b].
C10_Monotone ==
    Done("classify_price") /\ IsNumeric(arg[1]) /\ IsNumeric(arg[2]) /\ NumLe(arg[1], arg[2])
        => /\ res[1].err = "none" /\ res[2].err = "none"
           /\ Rank(res[1].ret) <= Rank(res[2].ret)
           /\ res[1].ret # res[2].ret =>
                  \E c \in {Threshold1, Threshold2} : Below(arg[1], c) /\ AtLeast(arg[2], c)

\* C10 witness: two prices a < b on the two sides of 80 have been
\* classified, a lower than b.
C10_Witness ==
    /\ Done("classify_price")
    /\ arg[1] = PyFloat(80 * Den - 1) /\ arg[2] = PyInt(80)
    /\ Rank(res[1].ret) < Rank(res[2].ret)

---------------------------------------------------------------------------
(* Properties of pprint_preds: C5 under Spec, C8 under SpecFn *)

AllStr(items) == \A i \in 1..Len(items) : items[i].t = "str"

\* what pprint_preds(p) is to print: the two header lines, then the
\* wrapped comma-join of the elements of p
JoinOf(p) == Append(Header, [s |-> Fill(Join(",", Items(p)))])

\* C5: every call pprint_preds(p) made by the cells prints, after the two
\* header lines, the wrapped comma-join of the elements of its argument p.
C5_PrintsJoinOfArgument ==
    \A i \in 1..Len(calls) :
        calls[i].fn = "pprint_preds" =>
            /\ calls[i].err = "none"
            /\ AllStr(Items(calls[i].arg))
            /\ calls[i].out = JoinOf(calls[i].arg)

\* C8: neither function uses state: two calls with the same argument, made
\* in any two notebook states, return the same value and print the same
\* text, and leave the notebook-level names as they were.
C8_NoNotebookState ==
    (fpc = "done" /\ arg[1] = arg[2]) =>
        /\ res[1].ret = res[2].ret
        /\ res[1].out = res[2].out
        /\ res[1].g = gl[1] /\ res[2].g = gl[2]

---------------------------------------------------------------------------
(* Properties of the cells, under Spec *)

SelfContained == {1, 11}

C7_NotebookOrderCompletes ==
    \A i \in 1..Len(Order) : i <= nbpos => status[Order[i]].err = "none"

\* C9: in the evaluation cell each metric is computed on labels and
\* predictions of the same split: the MSE on the wine test part, before the
\* names are rebound, the accuracy on the iris test part, after; y_true and
\* y_pred never differ in dataset, part or length.
C9_MetricsOnOneSplit ==
    last = 9 =>
        \A i \in 1..Len(metrics) :
            LET m == metrics[i] IN
            /\ m.y_true.ds = m.y_pred.ds
            /\ m.y_true.part = m.y_pred.part
            /\ NSamples(m.y_true) = NSamples(m.y_pred)
            /\ m.fn = "mean_squared_error" =>
                   m.line = 184 /\ m.y_true.ds = "wine" /\ m.y_true.part = "test"
            /\ m.fn = "accuracy_score" =>
                   m.line = 191 /\ m.y_true.ds = "iris" /\ m.y_true.part = "test"

\* C9 witness: the evaluation cell ran to its end and called both metrics,
\* the test names being bound to the iris split at its end.
C9_Witness ==
    /\ last = 9 /\ status[9].err = "none"
    /\ Len(metrics) = 2
    /\ metrics[1].fn = "mean_squared_error" /\ metrics[2].fn = "accuracy_score"
    /\ Lookup(ns, "y_test").ds = "iris"
    /\ NSamples(metrics[1].y_true) # NSamples(metrics[2].y_true)

====
